---------------------------- MODULE Spec2Model ----------------------------
(***************************************************************************)
(* Model of two units of libtextclassifier:                                *)
(*                                                                         *)
(*   - LangIdImpl / LangId (lang_id/lang-id.cc): model loading and the     *)
(*     thresholded language decision.  Specification: Spec.                *)
(*   - TokenFeatureExtractor (smartselect/token-feature-extractor.cc):     *)
(*     character n-gram feature hashing in its byte-oriented and its       *)
(*     codepoint-oriented variant.  Specification: ExtractorSpec.          *)
(*     Extract and the batch Extract, with the dense features, on the      *)
(*     callers' output vectors.  Specification: ExtractSpec.               *)
(*                                                                         *)
(* Probabilities and thresholds are floats in the code; here they are      *)
(* integers in hundredths (0.50 is 50), which keeps the order and the      *)
(* equalities the code's comparisons depend on.                            *)
(***************************************************************************)
EXTENDS Integers, Sequences, FiniteSets, TLC

VARIABLES
    \* ---- LangIdImpl ----
    phase,                  \* "Uninitialized" | "Constructed"
    valid_,                 \* bool valid_
    probability_threshold_, \* float probability_threshold_ (hundredths)
    default_language_,      \* std::string default_language_
    languages_,             \* ListOfStrings languages_
    network_params_,        \* unique_ptr<EmbeddingNetworkParamsFromProto>
    network_,               \* unique_ptr<EmbeddingNetwork>
    network_used,           \* the tokenizer and network_ have been reached
    failed_step,            \* the first load step the model file fails, or "none"
    model_thresh,           \* the model file's "reliability_thresh" option
    setters,                \* which setters have been called, with their last argument
    last,                   \* the last public call and what it returned
    \* ---- TokenFeatureExtractor ----
    options_,               \* TokenFeatureExtractorOptions options_
    token,                  \* the Token handed to the extractor
    ascii_result,           \* result of ExtractCharactergramFeaturesAscii
    unicode_result,         \* result of ExtractCharactergramFeaturesUnicode
    regex_patterns_,        \* std::vector<std::unique_ptr<icu::RegexPattern>>
    tokens,                 \* the std::vector<Token> handed to the batch Extract
    sparse_features,        \* the caller's std::vector<int> of Extract(token)
    dense_features,         \* the caller's std::vector<float> of Extract(token)
    batch_sparse_features,  \* the caller's vector of vectors of the batch Extract
    batch_dense_features,   \* the caller's vector of vectors of the batch Extract
    calls                   \* calls that returned true, and the last return value

lang_vars == <<phase, valid_, probability_threshold_, default_language_,
               languages_, network_params_, network_, network_used,
               failed_step, model_thresh, setters, last>>

extract_vars == <<regex_patterns_, tokens, sparse_features, dense_features,
                  batch_sparse_features, batch_dense_features, calls>>

tfe_vars == <<options_, token, ascii_result, unicode_result, extract_vars>>

vars == <<lang_vars, tfe_vars>>

(***************************************************************************)
(* Bounds of the model.                                                    *)
(***************************************************************************)
MaxDim == 2          \* largest output dimension of the network's final layer
MaxLanguages == 2    \* longest list of known languages in a model file

(***************************************************************************)
(*                          LangIdImpl: data                               *)
(***************************************************************************)
kDefaultProbabilityThreshold == 50

kInitialDefaultLanguage == ""

\* Language codes a model file may list.
LanguageCodes == {"en", "fr"}

\* Arguments of SetDefaultLanguage.
DefaultLanguageArgs == {"und", "en"}

\* Arguments of SetProbabilityThreshold.
ThresholdArgs == {25, 75, 100}

\* The "reliability_thresh" option of a model's TaskSpec: <<>> for a TaskSpec
\* without the option, <<v>> for one that sets it to v.
ReliabilityThreshOptions == {<<>>, <<0>>, <<75>>}

\* Input texts of the queries.
Texts == {"", "hello"}

\* Probabilities the softmax can return, in hundredths.
Probabilities == {0, 25, 50, 75, 100}

SeqsUpTo(S, n) == UNION {[1..k -> S] : k \in 0..n}

RECURSIVE Sum(_)
Sum(s) == IF s = <<>> THEN 0 ELSE Head(s) + Sum(Tail(s))

NullPtr == [created |-> FALSE, is_valid |-> FALSE, out_dim |-> 0]

\* A TaskInput is the list of the file patterns of its parts.
TaskInputs == {<<>>, <<"">>, <<"file">>, <<"file", "file">>}

\* The bytes of the network input file: absent, or present and then parsing
\* or not into an EmbeddingNetworkProto whose parameters are valid or not,
\* from which a valid network can be built or not.
NetworkBlobs ==
    {[present |-> FALSE, parses |-> FALSE, params_valid |-> FALSE,
      network_valid |-> FALSE, out_dim |-> 0],
     [present |-> TRUE, parses |-> FALSE, params_valid |-> FALSE,
      network_valid |-> FALSE, out_dim |-> 0]}
    \cup {[present |-> TRUE, parses |-> TRUE, params_valid |-> FALSE,
           network_valid |-> FALSE, out_dim |-> d] : d \in 0..MaxDim}
    \cup {[present |-> TRUE, parses |-> TRUE, params_valid |-> TRUE,
           network_valid |-> v, out_dim |-> d] : v \in BOOLEAN, d \in 0..MaxDim}

\* One record of the outer ListOfStrings: bytes that parse or not as the
\* inner ListOfStrings.
LanguageRecords ==
    {[parses |-> FALSE, strings |-> <<>>]}
    \cup {[parses |-> TRUE, strings |-> l] : l \in SeqsUpTo(LanguageCodes, MaxLanguages)}

\* The bytes of the language input file: absent, or present and then parsing
\* or not as the outer ListOfStrings with zero, one or two records.
LanguageBlobs ==
    {[present |-> FALSE, parses |-> FALSE, records |-> <<>>],
     [present |-> TRUE, parses |-> FALSE, records |-> <<>>],
     [present |-> TRUE, parses |-> TRUE, records |-> <<>>]}
    \cup {[present |-> TRUE, parses |-> TRUE, records |-> <<r>>] : r \in LanguageRecords}
    \cup {[present |-> TRUE, parses |-> TRUE, records |-> <<r, r>>] : r \in LanguageRecords}

\* What a model file (the mmap handle and the bytes behind it) decides.
ModelFiles ==
    [mmap_ok : BOOLEAN,
     task_spec_ok : BOOLEAN,
     network_input : TaskInputs,
     network_blob : NetworkBlobs,
     language_input : TaskInputs,
     language_blob : LanguageBlobs,
     reliability_thresh : ReliabilityThreshOptions,
     brain_init_ok : BOOLEAN]

NoCall == [op |-> "none", text |-> "", scores |-> <<>>, language |-> "",
           pairs |-> <<>>, flag |-> FALSE]

\* No setter called yet; afterwards <<v>> holds the last argument of each.
NoSetters == [threshold |-> <<>>, language |-> <<>>]

(***************************************************************************)
(*                     LangIdImpl: model loading                           *)
(***************************************************************************)
\* TaskContext::Get(name, default) for the float option "reliability_thresh".
ContextGet(option, defval) == IF option = <<>> THEN defval ELSE option[1]

GetInMemoryFileNameForTaskInput(task_input) ==
    IF Len(task_input) # 1 THEN "" ELSE task_input[1]

\* Returns the value returned and the network_params_ it leaves behind.
ParseNetworkParams(f) ==
    LET input_file_name == GetInMemoryFileNameForTaskInput(f.network_input)
        bytes == f.network_blob
    IN  IF input_file_name = "" THEN [ok |-> FALSE, network_params_ |-> NullPtr]
        ELSE IF ~bytes.present THEN [ok |-> FALSE, network_params_ |-> NullPtr]
        ELSE IF ~bytes.parses THEN [ok |-> FALSE, network_params_ |-> NullPtr]
        ELSE IF ~bytes.params_valid
             THEN [ok |-> FALSE,
                   network_params_ |-> [created |-> TRUE, is_valid |-> FALSE,
                                        out_dim |-> bytes.out_dim]]
        ELSE [ok |-> TRUE,
              network_params_ |-> [created |-> TRUE, is_valid |-> TRUE,
                                   out_dim |-> bytes.out_dim]]

\* ParseListOfKnownLanguages that only refuses an empty list of records.
ParseListOfKnownLanguagesAnyRecords(f) ==
    LET input_file_name == GetInMemoryFileNameForTaskInput(f.language_input)
        bytes == f.language_blob
    IN  IF input_file_name = "" THEN [ok |-> FALSE, languages_ |-> <<>>]
        ELSE IF ~bytes.present THEN [ok |-> FALSE, languages_ |-> <<>>]
        ELSE IF ~bytes.parses THEN [ok |-> FALSE, languages_ |-> <<>>]
        ELSE IF Len(bytes.records) < 1 THEN [ok |-> FALSE, languages_ |-> <<>>]
        ELSE IF ~bytes.records[1].parses THEN [ok |-> FALSE, languages_ |-> <<>>]
        ELSE [ok |-> TRUE, languages_ |-> bytes.records[1].strings]

\* Returns the value returned and the languages_ it leaves behind.
ParseListOfKnownLanguages(f) ==
    LET input_file_name == GetInMemoryFileNameForTaskInput(f.language_input)
        bytes == f.language_blob
    IN  IF input_file_name = "" THEN [ok |-> FALSE, languages_ |-> <<>>]
        ELSE IF ~bytes.present THEN [ok |-> FALSE, languages_ |-> <<>>]
        ELSE IF ~bytes.parses THEN [ok |-> FALSE, languages_ |-> <<>>]
        ELSE IF Len(bytes.records) # 1 THEN [ok |-> FALSE, languages_ |-> <<>>]
        ELSE IF ~bytes.records[1].parses THEN [ok |-> FALSE, languages_ |-> <<>>]
        ELSE [ok |-> TRUE, languages_ |-> bytes.records[1].strings]

\* new EmbeddingNetwork(network_params_.get())
NewEmbeddingNetwork(f, params) ==
    [created |-> TRUE, is_valid |-> f.network_blob.network_valid,
     out_dim |-> params.out_dim]

\* Initialize that reads "reliability_thresh" as soon as the TaskSpec is there.
InitializeThresholdEarly(f, threshold0) ==
    LET fresh == [valid_ |-> FALSE, probability_threshold_ |-> threshold0,
                  languages_ |-> <<>>, network_params_ |-> NullPtr,
                  network_ |-> NullPtr]
        params == ParseNetworkParams(f)
        s0 == [fresh EXCEPT !.probability_threshold_ =
                  ContextGet(f.reliability_thresh, kDefaultProbabilityThreshold)]
        s1 == [s0 EXCEPT !.network_params_ = params.network_params_]
        langs == ParseListOfKnownLanguages(f)
        s2 == [s1 EXCEPT !.languages_ = langs.languages_]
        s3 == [s2 EXCEPT !.network_ = NewEmbeddingNetwork(f, s2.network_params_)]
    IN  IF ~f.mmap_ok THEN fresh
        ELSE IF ~f.task_spec_ok THEN fresh
        ELSE IF ~params.ok THEN s1
        ELSE IF ~langs.ok THEN s2
        ELSE IF ~s3.network_.is_valid THEN s3
        ELSE IF ~f.brain_init_ok THEN s3
        ELSE [s3 EXCEPT !.valid_ = TRUE]

\* Initialize that declares the object valid once the language list is
\* parsed, without creating the network.
InitializeValidBeforeNetwork(f, threshold0) ==
    LET fresh == [valid_ |-> FALSE, probability_threshold_ |-> threshold0,
                  languages_ |-> <<>>, network_params_ |-> NullPtr,
                  network_ |-> NullPtr]
        params == ParseNetworkParams(f)
        s1 == [fresh EXCEPT !.network_params_ = params.network_params_]
        langs == ParseListOfKnownLanguages(f)
        s2 == [s1 EXCEPT !.languages_ = langs.languages_]
    IN  IF ~f.mmap_ok THEN fresh
        ELSE IF ~f.task_spec_ok THEN fresh
        ELSE IF ~params.ok THEN s1
        ELSE IF ~langs.ok THEN s2
        ELSE [s2 EXCEPT !.valid_ = TRUE,
                        !.probability_threshold_ =
                            ContextGet(f.reliability_thresh,
                                       kDefaultProbabilityThreshold)]

\* The fields of the object after Initialize(mmap_handle) on model file f,
\* started with the member initialisers' values threshold0.
Initialize(f, threshold0) ==
    LET fresh == [valid_ |-> FALSE, probability_threshold_ |-> threshold0,
                  languages_ |-> <<>>, network_params_ |-> NullPtr,
                  network_ |-> NullPtr]
        params == ParseNetworkParams(f)
        s1 == [fresh EXCEPT !.network_params_ = params.network_params_]
        langs == ParseListOfKnownLanguages(f)
        s2 == [s1 EXCEPT !.languages_ = langs.languages_]
        s3 == [s2 EXCEPT !.network_ = NewEmbeddingNetwork(f, s2.network_params_)]
        s4 == [s3 EXCEPT !.probability_threshold_ =
                  ContextGet(f.reliability_thresh, kDefaultProbabilityThreshold)]
    IN  IF ~f.mmap_ok THEN fresh
        ELSE IF ~f.task_spec_ok THEN fresh
        ELSE IF ~params.ok THEN s1
        ELSE IF ~langs.ok THEN s2
        ELSE IF ~s3.network_.is_valid THEN s3
        ELSE IF ~f.brain_init_ok THEN s4
        ELSE [s4 EXCEPT !.valid_ = TRUE]

\* What model file f holds, step by step of the load.
NetworkParamsLoadable(f) ==
    /\ Len(f.network_input) = 1 /\ f.network_input[1] # ""
    /\ f.network_blob.present /\ f.network_blob.parses
    /\ f.network_blob.params_valid

LanguageListLoadable(f) ==
    /\ Len(f.language_input) = 1 /\ f.language_input[1] # ""
    /\ f.language_blob.present /\ f.language_blob.parses
    /\ Len(f.language_blob.records) = 1
    /\ f.language_blob.records[1].parses

\* The first load step, in the order of the load, that model file f fails.
FirstFailingStep(f) ==
    CASE ~f.mmap_ok -> "byte_source"
      [] f.mmap_ok /\ ~f.task_spec_ok -> "task_spec"
      [] OTHER ->
           IF ~NetworkParamsLoadable(f) THEN "network_params"
           ELSE IF ~LanguageListLoadable(f) THEN "language_list"
           ELSE IF ~f.network_blob.network_valid THEN "network"
           ELSE IF ~f.brain_init_ok THEN "features"
           ELSE "none"

\* LangId::LangId(filename) / LangId::LangId(fd)
Construct ==
    /\ phase = "Uninitialized"
    /\ \E f \in ModelFiles :
          LET s == Initialize(f, probability_threshold_) IN
          /\ valid_' = s.valid_
          /\ probability_threshold_' = s.probability_threshold_
          /\ languages_' = s.languages_
          /\ network_params_' = s.network_params_
          /\ network_' = s.network_
          /\ failed_step' = FirstFailingStep(f)
          /\ model_thresh' = f.reliability_thresh
    /\ phase' = "Constructed"
    /\ last' = [NoCall EXCEPT !.op = "Construct"]
    /\ UNCHANGED <<default_language_, network_used, setters, tfe_vars>>

(***************************************************************************)
(*                       LangIdImpl: queries                               *)
(***************************************************************************)
is_valid == valid_

\* ComputeSoftmax over the network's final scores: every probability vector
\* of the network's output dimension.
SoftmaxOutputs(dim) == {s \in [1..dim -> Probabilities] : dim = 0 \/ Sum(s) = 100}

\* ScoreLanguages without its is_valid() guard.
ScoreLanguagesUnguarded(text) ==
    {[scores |-> s, ran |-> TRUE] : s \in SoftmaxOutputs(network_.out_dim)}

\* What ScoreLanguages(text) can return, and whether it ran the tokenizer
\* and the network to get there.
ScoreLanguages(text) ==
    IF ~is_valid THEN {[scores |-> <<>>, ran |-> FALSE]}
    ELSE {[scores |-> s, ran |-> TRUE] : s \in SoftmaxOutputs(network_.out_dim)}

\* GetArgMax: 0-based index of the first largest element.
GetArgMax(scores) ==
    (CHOOSE i \in 1..Len(scores) :
        /\ \A j \in 1..Len(scores) : scores[j] <= scores[i]
        /\ \A j \in 1..(i - 1) : scores[j] < scores[i]) - 1

\* GetLanguageForSoftmaxLabel falling back to the initial default language.
GetLanguageForSoftmaxLabelInitialDefault(label) ==
    IF (label >= 0) /\ (label < Len(languages_))
    THEN languages_[label + 1]
    ELSE kInitialDefaultLanguage

\* languages_.element(label) for a 0-based label
GetLanguageForSoftmaxLabel(label) ==
    IF (label >= 0) /\ (label < Len(languages_))
    THEN languages_[label + 1]
    ELSE default_language_

\* FindLanguage that also rejects a probability equal to the threshold.
FindLanguageRejectsEqual(scores) ==
    IF scores = <<>> THEN default_language_
    ELSE LET label == GetArgMax(scores)
             probability == scores[label + 1]
         IN  IF probability <= probability_threshold_
             THEN default_language_
             ELSE GetLanguageForSoftmaxLabel(label)

\* FindLanguage(text) once ScoreLanguages(text) has returned scores
FindLanguage(scores) ==
    IF scores = <<>> THEN default_language_
    ELSE LET label == GetArgMax(scores)
             probability == scores[label + 1]
         IN  IF probability < probability_threshold_
             THEN default_language_
             ELSE GetLanguageForSoftmaxLabel(label)

\* FindLanguages that drops the pairs below the threshold.
FindLanguagesFiltered(scores) ==
    SelectSeq([i \in 1..Len(scores) |->
                  <<GetLanguageForSoftmaxLabel(i - 1), scores[i]>>],
              LAMBDA pair : pair[2] >= probability_threshold_)

\* FindLanguages(text) once ScoreLanguages(text) has returned scores
FindLanguages(scores) ==
    [i \in 1..Len(scores) |-> <<GetLanguageForSoftmaxLabel(i - 1), scores[i]>>]

\* SetProbabilityThreshold that invalidates the object on a threshold of 1.0.
SetProbabilityThresholdInvalidating ==
    /\ phase = "Constructed"
    /\ \E threshold \in ThresholdArgs :
          /\ probability_threshold_' = threshold
          /\ setters' = [setters EXCEPT !.threshold = <<threshold>>]
          /\ valid_' = (valid_ /\ threshold < 100)
    /\ last' = [NoCall EXCEPT !.op = "SetProbabilityThreshold"]
    /\ UNCHANGED <<phase, default_language_, languages_,
                   network_params_, network_, network_used, failed_step,
                   model_thresh, tfe_vars>>

SetProbabilityThreshold ==
    /\ phase = "Constructed"
    /\ \E threshold \in ThresholdArgs :
          /\ probability_threshold_' = threshold
          /\ setters' = [setters EXCEPT !.threshold = <<threshold>>]
    /\ last' = [NoCall EXCEPT !.op = "SetProbabilityThreshold"]
    /\ UNCHANGED <<phase, valid_, default_language_, languages_,
                   network_params_, network_, network_used, failed_step, model_thresh,
                   tfe_vars>>

SetDefaultLanguage ==
    /\ phase = "Constructed"
    /\ \E lang \in DefaultLanguageArgs :
          /\ default_language_' = lang
          /\ setters' = [setters EXCEPT !.language = <<lang>>]
    /\ last' = [NoCall EXCEPT !.op = "SetDefaultLanguage"]
    /\ UNCHANGED <<phase, valid_, probability_threshold_, languages_,
                   network_params_, network_, network_used, failed_step, model_thresh,
                   tfe_vars>>

FindLanguageCall ==
    /\ phase = "Constructed"
    /\ \E text \in Texts : \E r \in ScoreLanguages(text) :
          /\ last' = [NoCall EXCEPT !.op = "FindLanguage", !.text = text,
                                    !.scores = r.scores,
                                    !.language = FindLanguage(r.scores)]
          /\ network_used' = (network_used \/ r.ran)
    /\ UNCHANGED <<phase, valid_, probability_threshold_, default_language_,
                   languages_, network_params_, network_, failed_step, model_thresh, setters,
                   tfe_vars>>

FindLanguagesCall ==
    /\ phase = "Constructed"
    /\ \E text \in Texts : \E r \in ScoreLanguages(text) :
          /\ last' = [NoCall EXCEPT !.op = "FindLanguages", !.text = text,
                                    !.scores = r.scores,
                                    !.pairs = FindLanguages(r.scores)]
          /\ network_used' = (network_used \/ r.ran)
    /\ UNCHANGED <<phase, valid_, probability_threshold_, default_language_,
                   languages_, network_params_, network_, failed_step, model_thresh, setters,
                   tfe_vars>>

IsValidCall ==
    /\ phase = "Constructed"
    /\ last' = [NoCall EXCEPT !.op = "is_valid", !.flag = is_valid]
    /\ UNCHANGED <<phase, valid_, probability_threshold_, default_language_,
                   languages_, network_params_, network_, network_used,
                   failed_step, model_thresh, setters, tfe_vars>>

\* An extraction result before the extraction has run.
NotRun == [ran |-> FALSE, feature_word |-> <<>>, ids |-> <<>>]

\* No Extract call yet, on empty buffers.
NoCalls == [single |-> 0, batch |-> 0, returned |-> TRUE]

IdleExtract ==
    /\ regex_patterns_ = <<>>
    /\ tokens = <<>>
    /\ sparse_features = <<>>
    /\ dense_features = <<>>
    /\ batch_sparse_features = <<>>
    /\ batch_dense_features = <<>>
    /\ calls = NoCalls

\* The extractor when the specification is about LangId.
IdleExtractor ==
    /\ options_ = [num_buckets |-> 1, chargram_orders |-> <<>>,
                   max_word_length |-> 0, remap_digits |-> FALSE]
    /\ token = [value |-> <<>>, is_padding |-> FALSE, is_in_span |-> FALSE]
    /\ ascii_result = NotRun
    /\ unicode_result = NotRun
    /\ IdleExtract

\* Before the constructor runs: valid_ has no initialiser, the other members
\* have theirs.
Init ==
    /\ phase = "Uninitialized"
    /\ valid_ \in BOOLEAN
    /\ probability_threshold_ = kDefaultProbabilityThreshold
    /\ default_language_ = kInitialDefaultLanguage
    /\ languages_ = <<>>
    /\ network_params_ = NullPtr
    /\ network_ = NullPtr
    /\ network_used = FALSE
    /\ failed_step = "none"
    /\ model_thresh = <<>>
    /\ setters = NoSetters
    /\ last = NoCall
    /\ IdleExtractor

Next ==
    \/ Construct
    \/ SetProbabilityThreshold
    \/ SetDefaultLanguage
    \/ FindLanguageCall
    \/ FindLanguagesCall
    \/ IsValidCall

Spec == Init /\ [][Next]_vars

(***************************************************************************)
(*                     Properties of LangIdImpl                            *)
(***************************************************************************)
Range(s) == {s[i] : i \in DOMAIN s}

Constructed == phase = "Constructed"

\* The language a call of SetDefaultLanguage set last, else the initial one.
LastSetLanguage ==
    IF setters.language = <<>> THEN "" ELSE setters.language[1]

\* The largest score, and the 0-based labels that carry it.
MaxScore(scores) == CHOOSE m \in Range(scores) : \A x \in Range(scores) : x <= m

ArgMaxLabels(scores) ==
    {i - 1 : i \in {j \in DOMAIN scores : scores[j] = MaxScore(scores)}}

C3_InvalidFindLanguageReturnsDefault ==
    (Constructed /\ ~is_valid) =>
        /\ ~network_used
        /\ last.op = "FindLanguage" => last.language = LastSetLanguage

C3_Witness ==
    /\ Constructed /\ ~is_valid
    /\ network_.created
    /\ setters.language = <<"und">> /\ setters.threshold # <<>>
    /\ last.op = "FindLanguage" /\ last.text = "" /\ last.language = "und"

C5_ValidityIsTerminal == [][Constructed => valid_' = valid_]_vars

C5_Witness ==
    /\ Constructed /\ is_valid
    /\ setters.threshold = <<100>> /\ setters.language # <<>>
    /\ last.op = "FindLanguages"

\* C6: construction ends valid if and only if no load step fails; a failing
\* step stops the load (nothing a later step creates exists) and leaves a
\* classifier whose FindLanguages returns the empty list.
C6_ValidIffEveryLoadStepSucceeded ==
    Constructed =>
        /\ is_valid <=> failed_step = "none"
        /\ failed_step \in {"byte_source", "task_spec"} => ~network_params_.created
        /\ failed_step \in {"byte_source", "task_spec", "network_params"} =>
              languages_ = <<>>
        /\ failed_step \in {"byte_source", "task_spec", "network_params",
                            "language_list"} => ~network_.created
        /\ (failed_step # "none" /\ last.op = "FindLanguages") => last.pairs = <<>>

C6_Witness ==
    /\ Constructed /\ failed_step = "language_list"
    /\ network_params_.created /\ network_params_.is_valid
    /\ last.op = "FindLanguages" /\ last.pairs = <<>>

\* C7 (as stated): after construction and before any setter is called the
\* threshold is 0.50 and the default language is empty, whatever the model
\* file.
C7_DefaultsAfterConstruction ==
    (Constructed /\ setters = NoSetters) =>
        /\ probability_threshold_ = kDefaultProbabilityThreshold
        /\ default_language_ = kInitialDefaultLanguage

\* C7 (amended): default_language is the empty string until SetDefaultLanguage
\* is called and then its last argument; probability_threshold is the last
\* argument of SetProbabilityThreshold once that is called, and before that
\* 0.50 unless the load got as far as a valid network and the model file sets
\* the option "reliability_thresh", whose value it then is.
C7_FieldsAfterConstruction ==
    Constructed =>
        /\ default_language_ = LastSetLanguage
        /\ probability_threshold_ =
              IF setters.threshold # <<>> THEN setters.threshold[1]
              ELSE IF network_.created /\ network_.is_valid /\ model_thresh # <<>>
              THEN model_thresh[1]
              ELSE kDefaultProbabilityThreshold

C7_Witness ==
    /\ Constructed /\ setters = NoSetters /\ last.op = "Construct"
    /\ ~is_valid
    /\ probability_threshold_ = 75

MaxTokenLen == 3        \* longest token value, in codepoints
MaxWordLength == 3      \* largest options_.max_word_length

\* '^', '$', '\1' and '0'.
kCaret == 94
kDollar == 36
kSeparator == 1
kZero == 48

\* "<PAD>"
kPadToken == <<60, 80, 65, 68, 62>>

\* Codepoints of the token values: 'B', '7', U+00E9 (e acute) and U+0663
\* (ARABIC-INDIC DIGIT THREE).
CodePoints == {66, 55, 233, 1635}

AsciiCodePoints == {c \in CodePoints : c < 128}

\* The orders a configuration can ask for, and the lists of them: each set
\* of orders, ascending and descending.
ChargramOrders == {1, 2, 3}

RECURSIVE Ascending(_)
Ascending(S) ==
    IF S = {} THEN <<>>
    ELSE LET lo == CHOOSE x \in S : \A y \in S : x <= y
         IN  <<lo>> \o Ascending(S \ {lo})

Reverse(s) == [i \in 1..Len(s) |-> s[Len(s) + 1 - i]]

ChargramOrderLists ==
    {Ascending(S) : S \in SUBSET ChargramOrders}
    \cup {Reverse(Ascending(S)) : S \in SUBSET ChargramOrders}

NumBucketsChoices == {7, 1000}

\* UTF-8 encoding of a codepoint below U+0800.
Utf8(cp) ==
    IF cp < 128 THEN <<cp>>
    ELSE <<192 + (cp \div 64), 128 + (cp % 64)>>

RECURSIVE Utf8String(_)
Utf8String(cps) ==
    IF cps = <<>> THEN <<>> ELSE Utf8(Head(cps)) \o Utf8String(Tail(cps))

\* Length of the UTF-8 sequence a lead byte starts.
CharLen(b) ==
    IF b < 128 THEN 1 ELSE IF b < 224 THEN 2 ELSE IF b < 240 THEN 3 ELSE 4

\* The byte at offset pos; a std::string ends with a 0 byte.
ByteAt(s, pos) == IF pos < Len(s) THEN s[pos + 1] ELSE 0

\* UnicodeText::const_iterator::operator++
Advance(s, pos) == pos + CharLen(ByteAt(s, pos))

\* UnicodeText::const_iterator::operator--: back over the trail bytes.
RECURSIVE Retreat(_, _)
Retreat(s, pos) ==
    LET p == pos - 1
    IN  IF p > 0 /\ ByteAt(s, p) >= 128 /\ ByteAt(s, p) < 192
        THEN Retreat(s, p)
        ELSE p

\* UnicodeText::const_iterator::operator*
CodePointAt(s, pos) ==
    LET b == ByteAt(s, pos)
    IN  IF b < 128 THEN b
        ELSE (b - 192) * 64 + (ByteAt(s, pos + 1) - 128)

\* UnicodeText::UTF8Substring(first, last)
UTF8Substring(s, it_first, it_last) == SubSeq(s, it_first + 1, it_last)

\* std::string::substr(pos, n)
Substr(s, pos, n) ==
    SubSeq(s, pos + 1, IF pos + n < Len(s) THEN pos + n ELSE Len(s))

\* isdigit on a byte of the string: the ASCII digits (a byte of 128 or more
\* is no digit in the C locale).
isdigit(b) == b >= 48 /\ b <= 57

\* u_isdigit: general category Nd, here the ASCII and the Arabic-Indic digits.
u_isdigit(cp) == (cp >= 48 /\ cp <= 57) \/ (cp >= 1632 /\ cp <= 1641)

\* tcfarmhash::Fingerprint64, narrowed to 16 bits: a fixed function of the
\* bytes.
RECURSIVE Fingerprint64From(_, _)
Fingerprint64From(h, s) ==
    IF s = <<>> THEN h
    ELSE Fingerprint64From((h * 31 + Head(s) + 1) % 65536, Tail(s))

Fingerprint64(s) == Fingerprint64From(7, s)

\* The fingerprint itself, not reduced.
HashTokenUnreduced(opts, s) == Fingerprint64(s)

HashToken(opts, s) == Fingerprint64(s) % opts.num_buckets

HashAll(opts, grams) == [i \in 1..Len(grams) |-> HashToken(opts, grams[i])]

MapDigitsToZeroAscii(value) ==
    [i \in 1..Len(value) |-> IF isdigit(value[i]) THEN kZero ELSE value[i]]

RECURSIVE MapDigitsToZeroUnicodeFrom(_, _)
MapDigitsToZeroUnicodeFrom(value, it) ==
    IF it >= Len(value) THEN <<>>
    ELSE (IF u_isdigit(CodePointAt(value, it))
          THEN <<kZero>>
          ELSE UTF8Substring(value, it, Advance(value, it)))
         \o MapDigitsToZeroUnicodeFrom(value, Advance(value, it))

\* A remapping that knows the ASCII digits only.
MapDigitsToZeroUnicodeAsciiOnly(value) == MapDigitsToZeroAscii(value)

MapDigitsToZeroUnicode(value) == MapDigitsToZeroUnicodeFrom(value, 0)

(***************************************************************************)
(*           TokenFeatureExtractor: the byte-oriented extraction           *)
(***************************************************************************)
WordAscii(opts, tok) ==
    IF opts.remap_digits THEN MapDigitsToZeroAscii(tok.value) ELSE tok.value

FeatureWordAscii(opts, tok) ==
    LET word == WordAscii(opts, tok)
        max_word_length == opts.max_word_length
    IN  IF Len(word) > max_word_length
        THEN <<kCaret>> \o Substr(word, 0, max_word_length \div 2)
             \o <<kSeparator>>
             \o Substr(word, Len(word) - max_word_length \div 2,
                       max_word_length \div 2)
             \o <<kDollar>>
        ELSE <<kCaret>> \o word \o <<kDollar>>

\* The character-grams of one order, as strings.
ChargramsAscii(feature_word, chargram_order) ==
    IF chargram_order = 1
    THEN [i \in 1..(Len(feature_word) - 2) |-> Substr(feature_word, i, 1)]
    ELSE LET count == Len(feature_word) - chargram_order + 1
         IN  [j \in 1..(IF count > 0 THEN count ELSE 0) |->
                 Substr(feature_word, j - 1, chargram_order)]

RECURSIVE AllChargramsAscii(_, _)
AllChargramsAscii(feature_word, orders) ==
    IF orders = <<>> THEN <<>>
    ELSE ChargramsAscii(feature_word, Head(orders))
         \o AllChargramsAscii(feature_word, Tail(orders))

ExtractCharactergramFeaturesAscii(opts, tok) ==
    IF tok.is_padding
    THEN [ran |-> TRUE, feature_word |-> <<>>,
          ids |-> <<HashToken(opts, kPadToken)>>]
    ELSE LET feature_word == FeatureWordAscii(opts, tok)
         IN  [ran |-> TRUE, feature_word |-> feature_word,
              ids |-> HashAll(opts, AllChargramsAscii(feature_word,
                                                      opts.chargram_orders))]

(***************************************************************************)
(*          TokenFeatureExtractor: the codepoint-oriented extraction       *)
(***************************************************************************)
WordUnicode(opts, tok) ==
    IF opts.remap_digits THEN MapDigitsToZeroUnicode(tok.value) ELSE tok.value

\* The loop that moves left_cut and right_cut towards each other, from its
\* i-th round on.
RECURSIVE CutPoints(_, _, _, _, _)
CutPoints(word, left_cut, right_cut, i, rounds) ==
    IF i >= rounds THEN [left_cut |-> left_cut, right_cut |-> right_cut]
    ELSE LET l == IF left_cut < right_cut THEN Advance(word, left_cut)
                  ELSE left_cut
             r == IF l < right_cut THEN Retreat(word, right_cut)
                  ELSE right_cut
         IN  CutPoints(word, l, r, i + 1, rounds)

FeatureWordUnicode(opts, tok) ==
    LET word == WordUnicode(opts, tok)
        cut == CutPoints(word, 0, Len(word), 0, opts.max_word_length \div 2)
    IN  IF cut.left_cut = cut.right_cut
        THEN <<kCaret>> \o UTF8Substring(word, 0, Len(word)) \o <<kDollar>>
        ELSE <<kCaret>> \o UTF8Substring(word, 0, cut.left_cut)
             \o <<kSeparator>>
             \o UTF8Substring(word, cut.right_cut, Len(word))
             \o <<kDollar>>

\* The loop that moves it_chargram_end chargram_order codepoints on, from its
\* i-th round on.
RECURSIVE FirstChargramEnd(_, _, _, _, _)
FirstChargramEnd(fw, it_chargram_end, it_end, i, chargram_order) ==
    IF i >= chargram_order
    THEN [chargram_is_complete |-> TRUE, it_chargram_end |-> it_chargram_end]
    ELSE LET next == Advance(fw, it_chargram_end)
         IN  IF next >= it_end
             THEN [chargram_is_complete |-> FALSE, it_chargram_end |-> next]
             ELSE FirstChargramEnd(fw, next, it_end, i + 1, chargram_order)

\* The loop that slides the window [it_chargram_start, it_chargram_end).
RECURSIVE SlideChargrams(_, _, _, _)
SlideChargrams(fw, it_chargram_start, it_chargram_end, it_end) ==
    IF it_chargram_end <= it_end
    THEN <<UTF8Substring(fw, it_chargram_start, it_chargram_end)>>
         \o SlideChargrams(fw, Advance(fw, it_chargram_start),
                           Advance(fw, it_chargram_end), it_end)
    ELSE <<>>

\* The character-grams of one order, as strings.
ChargramsUnicode(fw, chargram_order) ==
    LET it_start == IF chargram_order = 1 THEN Advance(fw, 0) ELSE 0
        it_end == IF chargram_order = 1 THEN Retreat(fw, Len(fw)) ELSE Len(fw)
        first == FirstChargramEnd(fw, it_start, it_end, 0, chargram_order)
    IN  IF ~first.chargram_is_complete THEN <<>>
        ELSE SlideChargrams(fw, it_start, first.it_chargram_end, it_end)

RECURSIVE AllChargramsUnicode(_, _)
AllChargramsUnicode(fw, orders) ==
    IF orders = <<>> THEN <<>>
    ELSE ChargramsUnicode(fw, Head(orders))
         \o AllChargramsUnicode(fw, Tail(orders))

ExtractCharactergramFeaturesUnicode(opts, tok) ==
    IF tok.is_padding
    THEN [ran |-> TRUE, feature_word |-> <<>>,
          ids |-> <<HashToken(opts, kPadToken)>>]
    ELSE LET feature_word == FeatureWordUnicode(opts, tok)
         IN  [ran |-> TRUE, feature_word |-> feature_word,
              ids |-> HashAll(opts, AllChargramsUnicode(feature_word,
                                                        opts.chargram_orders))]

(***************************************************************************)
(*                 TokenFeatureExtractor: specification                    *)
(***************************************************************************)
TokenValues == {Utf8String(cps) : cps \in SeqsUpTo(CodePoints, MaxTokenLen)}

Tokens == [value : TokenValues, is_padding : BOOLEAN, is_in_span : {FALSE}]

ExtractorOptions ==
    [num_buckets : NumBucketsChoices,
     chargram_orders : ChargramOrderLists,
     max_word_length : 0..MaxWordLength,
     remap_digits : BOOLEAN]

\* The classifier when the specification is about the extractor.
IdleLangId ==
    /\ phase = "Uninitialized"
    /\ valid_ = FALSE
    /\ probability_threshold_ = kDefaultProbabilityThreshold
    /\ default_language_ = kInitialDefaultLanguage
    /\ languages_ = <<>>
    /\ network_params_ = NullPtr
    /\ network_ = NullPtr
    /\ network_used = FALSE
    /\ failed_step = "none"
    /\ model_thresh = <<>>
    /\ setters = NoSetters
    /\ last = NoCall

\* An extractor constructed with some options, and a token to hand to it.
ExtractorInit ==
    /\ IdleLangId
    /\ options_ \in ExtractorOptions
    /\ token \in Tokens
    /\ ascii_result = NotRun
    /\ unicode_result = NotRun
    /\ IdleExtract

CallAscii ==
    /\ ~ascii_result.ran
    /\ ascii_result' = ExtractCharactergramFeaturesAscii(options_, token)
    /\ UNCHANGED <<options_, token, unicode_result, extract_vars, lang_vars>>

CallUnicode ==
    /\ ~unicode_result.ran
    /\ unicode_result' = ExtractCharactergramFeaturesUnicode(options_, token)
    /\ UNCHANGED <<options_, token, ascii_result, extract_vars, lang_vars>>

ExtractorNext == CallAscii \/ CallUnicode

ExtractorSpec == ExtractorInit /\ [][ExtractorNext]_vars

(***************************************************************************)
(*                    TokenFeatureExtractor: Extract                       *)
(*                                                                         *)
(* Dense values are the floats 1.0, -1.0 and 0.0 of the code, written 1,   *)
(* -1 and 0.  A regular expression is modelled by the literal it searches  *)
(* for; a pattern that does not compile gives a null RegexPattern.         *)
(***************************************************************************)
MaxCalls == 2           \* Extract calls on the same output buffers
MaxBatch == 1           \* tokens of one batch

\* isupper on a byte of the string: the ASCII capitals (a byte of 128 or more
\* is no capital in the C locale).
isupper(b) == b >= 65 /\ b <= 90

\* u_isupper: here the ASCII and the Latin-1 capitals.
u_isupper(cp) ==
    \/ cp >= 65 /\ cp <= 90
    \/ cp >= 192 /\ cp <= 222 /\ cp # 215

\* "(" is no regular expression; "7" and "B" search for themselves.
UncompilablePatterns == {<<40>>}

RegexpFeatureLists == {<<>>, << <<40>>, <<55>> >>, << <<66>> >>}

NullPattern == [compiled |-> FALSE, literal |-> <<>>]

\* icu::RegexPattern::compile: null on failure.
RegexPatternCompile(pattern) ==
    IF pattern \in UncompilablePatterns THEN NullPattern
    ELSE [compiled |-> TRUE, literal |-> pattern]

\* icu::RegexMatcher::find: the pattern occurs somewhere in the input.
RegexMatcherFind(pattern, value) ==
    \E i \in 0..(Len(value) - Len(pattern.literal)) :
        SubSeq(value, i + 1, i + Len(pattern.literal)) = pattern.literal

\* The constructor: one entry of regex_patterns_ per configured pattern.
TokenFeatureExtractor(options) ==
    [i \in DOMAIN options.regexp_features |->
        RegexPatternCompile(options.regexp_features[i])]

ExtractCharactergramFeatures(opts, tok) ==
    IF opts.unicode_aware_features
    THEN ExtractCharactergramFeaturesUnicode(opts, tok).ids
    ELSE ExtractCharactergramFeaturesAscii(opts, tok).ids

\* What the extract_case_feature block pushes back.
CaseFeature(opts, tok) ==
    IF ~opts.extract_case_feature THEN <<>>
    ELSE IF opts.unicode_aware_features
         THEN IF tok.value # <<>> /\ u_isupper(CodePointAt(tok.value, 0))
              THEN <<1>> ELSE <<-1>>
         ELSE IF tok.value # <<>> /\ isupper(ByteAt(tok.value, 0))
              THEN <<1>> ELSE <<-1>>

\* What the extract_selection_mask_feature block pushes back.
SelectionMaskFeature(opts, tok) ==
    IF ~opts.extract_selection_mask_feature THEN <<>>
    ELSE IF tok.is_in_span THEN <<1>>
         ELSE IF opts.unicode_aware_features THEN <<-1>> ELSE <<0>>

\* What the loop over regex_patterns_ pushes back, all patterns included.
RegexFeaturesSkippingNull(patterns, tok) ==
    LET compiled == SelectSeq(patterns, LAMBDA p : p.compiled)
    IN  [i \in DOMAIN compiled |->
            IF RegexMatcherFind(compiled[i], tok.value) THEN 1 ELSE -1]

RegexFeatures(patterns, tok) ==
    [i \in DOMAIN patterns |->
        IF ~patterns[i].compiled THEN -1
        ELSE IF RegexMatcherFind(patterns[i], tok.value) THEN 1 ELSE -1]

\* Extract(token, sparse_features, dense_features): the two pointers are
\* null or point at the caller's vectors, whose contents are sparse and dense.
Extract(opts, patterns, tok, sparse_null, dense_null, sparse, dense) ==
    IF sparse_null \/ dense_null
    THEN [returned |-> FALSE, sparse_features |-> sparse,
          dense_features |-> dense]
    ELSE [returned |-> TRUE,
          sparse_features |-> ExtractCharactergramFeatures(opts, tok),
          dense_features |-> dense \o CaseFeature(opts, tok)
                                   \o SelectionMaskFeature(opts, tok)
                                   \o RegexFeatures(patterns, tok)]

\* std::vector::resize: the first n elements are kept, new ones are empty.
Resize(v, n) == [i \in 1..n |-> IF i <= Len(v) THEN v[i] ELSE <<>>]

\* The loop of the batch Extract from its i-th token on.
RECURSIVE ExtractLoop(_, _, _, _, _, _)
ExtractLoop(opts, patterns, toks, i, sparse, dense) ==
    IF i > Len(toks)
    THEN [returned |-> TRUE, sparse_features |-> sparse,
          dense_features |-> dense]
    ELSE LET r == Extract(opts, patterns, toks[i], FALSE, FALSE,
                          sparse[i], dense[i])
         IN  IF ~r.returned
             THEN [returned |-> FALSE, sparse_features |-> sparse,
                   dense_features |-> dense]
             ELSE ExtractLoop(opts, patterns, toks, i + 1,
                              [sparse EXCEPT ![i] = r.sparse_features],
                              [dense EXCEPT ![i] = r.dense_features])

\* Extract(tokens, sparse_features, dense_features)
ExtractBatch(opts, patterns, toks, sparse_null, dense_null, sparse, dense) ==
    IF sparse_null \/ dense_null
    THEN [returned |-> FALSE, sparse_features |-> sparse,
          dense_features |-> dense]
    ELSE ExtractLoop(opts, patterns, toks, 1,
                     Resize(sparse, Len(toks)), Resize(dense, Len(toks)))

\* Token values: "", "B", "7", U+00C9 (E acute, a capital) and U+0663.
ExtractTokenValues == {Utf8String(cps) : cps \in {<<>>, <<66>>, <<55>>, <<201>>, <<1635>>}}

ExtractTokens ==
    [value : ExtractTokenValues, is_padding : {FALSE}, is_in_span : BOOLEAN]
    \cup [value : {<<>>}, is_padding : {TRUE}, is_in_span : {FALSE}]

ExtractOptions ==
    [num_buckets : {1000},
     chargram_orders : {<<1, 2>>},
     max_word_length : {2},
     remap_digits : BOOLEAN,
     unicode_aware_features : BOOLEAN,
     extract_case_feature : BOOLEAN,
     extract_selection_mask_feature : BOOLEAN,
     regexp_features : RegexpFeatureLists]

\* An extractor constructed with some options, the tokens of a query, and
\* the caller's empty vectors.
ExtractInit ==
    /\ IdleLangId
    /\ options_ \in ExtractOptions
    /\ regex_patterns_ = TokenFeatureExtractor(options_)
    /\ tokens \in SeqsUpTo(ExtractTokens, MaxBatch)
    /\ token = [value |-> <<>>, is_padding |-> FALSE, is_in_span |-> FALSE]
    /\ ascii_result = NotRun
    /\ unicode_result = NotRun
    /\ sparse_features = <<>>
    /\ dense_features = <<>>
    /\ batch_sparse_features = <<>>
    /\ batch_dense_features = <<>>
    /\ calls = NoCalls

\* Extract on one of the tokens, with the caller's two vectors or with a
\* null pointer.
ExtractCall ==
    /\ calls.single < MaxCalls
    /\ \E i \in DOMAIN tokens, sparse_null \in BOOLEAN, dense_null \in BOOLEAN :
          LET r == Extract(options_, regex_patterns_, tokens[i], sparse_null,
                           dense_null, sparse_features, dense_features)
          IN  /\ token' = IF r.returned THEN tokens[i] ELSE token
              /\ sparse_features' = r.sparse_features
              /\ dense_features' = r.dense_features
              /\ calls' = [calls EXCEPT
                             !.single = IF r.returned THEN @ + 1 ELSE @,
                             !.returned = r.returned]
    /\ UNCHANGED <<options_, regex_patterns_, tokens, ascii_result,
                   unicode_result, batch_sparse_features,
                   batch_dense_features, lang_vars>>

\* The batch Extract on the tokens, with the caller's two vectors of vectors
\* or with a null pointer.
ExtractBatchCall ==
    /\ calls.batch < MaxCalls
    /\ \E sparse_null \in BOOLEAN, dense_null \in BOOLEAN :
          LET r == ExtractBatch(options_, regex_patterns_, tokens, sparse_null,
                                dense_null, batch_sparse_features,
                                batch_dense_features)
          IN  /\ batch_sparse_features' = r.sparse_features
              /\ batch_dense_features' = r.dense_features
              /\ calls' = [calls EXCEPT
                             !.batch = IF r.returned THEN @ + 1 ELSE @,
                             !.returned = r.returned]
    /\ UNCHANGED <<options_, regex_patterns_, tokens, token, ascii_result,
                   unicode_result, sparse_features, dense_features, lang_vars>>

ExtractNext == ExtractCall \/ ExtractBatchCall

ExtractSpec == ExtractInit /\ [][ExtractNext]_vars

(***************************************************************************)
(*                Properties of TokenFeatureExtractor                      *)
(***************************************************************************)
IsAsciiToken == \A i \in DOMAIN token.value : token.value[i] < 128

\* A string cut into its units: bytes for the byte-oriented path, the UTF-8
\* sequences of its codepoints for the codepoint-oriented one.
ByteUnits(s) == [i \in 1..Len(s) |-> <<s[i]>>]

RECURSIVE CodepointUnits(_)
CodepointUnits(s) ==
    IF s = <<>> THEN <<>>
    ELSE LET n == CharLen(Head(s))
         IN  <<SubSeq(s, 1, n)>> \o CodepointUnits(SubSeq(s, n + 1, Len(s)))

RECURSIVE Flatten(_)
Flatten(units) ==
    IF units = <<>> THEN <<>> ELSE Head(units) \o Flatten(Tail(units))

\* '^' + first m/2 units + separator + last m/2 units + '$' for a word of
\* more than m units, '^' + word + '$' otherwise.
TrimmedFeatureWord(units, m) ==
    IF Len(units) > m
    THEN <<kCaret>> \o Flatten(SubSeq(units, 1, m \div 2))
         \o <<kSeparator>>
         \o Flatten(SubSeq(units, Len(units) - (m \div 2) + 1, Len(units)))
         \o <<kDollar>>
    ELSE <<kCaret>> \o Flatten(units) \o <<kDollar>>

\* The character-grams of order k of a feature word of L units: the L-2
\* interior units for k = 1, the max(0, L-k+1) complete windows otherwise.
ExpectedChargrams(units, k) ==
    IF k = 1
    THEN [i \in 1..(Len(units) - 2) |-> units[i + 1]]
    ELSE [i \in 1..(IF Len(units) - k + 1 > 0 THEN Len(units) - k + 1 ELSE 0) |->
             Flatten(SubSeq(units, i, i + k - 1))]

RECURSIVE AllExpectedChargrams(_, _)
AllExpectedChargrams(units, orders) ==
    IF orders = <<>> THEN <<>>
    ELSE ExpectedChargrams(units, Head(orders))
         \o AllExpectedChargrams(units, Tail(orders))

\* C1: for every token of ASCII bytes only (empty and padding tokens too),
\* every max_word_length, remap_digits setting and list of orders, the
\* byte-oriented and the codepoint-oriented extraction return the same
\* sequence of hash ids.
C1_AsciiAndUnicodeAgree ==
    (ascii_result.ran /\ unicode_result.ran /\ IsAsciiToken) =>
        ascii_result.ids = unicode_result.ids

\* C9: in both paths the feature word of a non-padding token whose word has
\* n units is '^' + first max_word_length/2 units + separator + last
\* max_word_length/2 units + '$' if n > max_word_length, and '^' + word + '$'
\* if n <= max_word_length, for odd max_word_length too.
C9_SeparatorIffLongerThanMax ==
    /\ (ascii_result.ran /\ ~token.is_padding) =>
          ascii_result.feature_word =
              TrimmedFeatureWord(ByteUnits(WordAscii(options_, token)),
                                 options_.max_word_length)
    /\ (unicode_result.ran /\ ~token.is_padding) =>
          unicode_result.feature_word =
              TrimmedFeatureWord(CodepointUnits(WordUnicode(options_, token)),
                                 options_.max_word_length)

\* C10: in both paths, for a feature word of L units and each configured
\* order k in list order, the ids emitted are those of the L-2 interior units
\* for k = 1 and of the max(0, L-k+1) complete windows starting at positions
\* 0..L-k for k >= 2, the single window of k = L included.
C10_OneIdPerCompleteWindow ==
    /\ (ascii_result.ran /\ ~token.is_padding) =>
          ascii_result.ids =
              HashAll(options_,
                      AllExpectedChargrams(ByteUnits(ascii_result.feature_word),
                                           options_.chargram_orders))
    /\ (unicode_result.ran /\ ~token.is_padding) =>
          unicode_result.ids =
              HashAll(options_,
                      AllExpectedChargrams(
                          CodepointUnits(unicode_result.feature_word),
                          options_.chargram_orders))

(***************************************************************************)
(*             Properties of TokenFeatureExtractor::Extract                *)
(***************************************************************************)
\* The first Extract(token) that wrote the caller's vectors, which were empty.
FirstExtractDone == calls.single = 1

\* Dense values as the configuration and the token determine them.
DenseCase(first_is_upper) ==
    IF options_.extract_case_feature
    THEN <<IF first_is_upper THEN 1 ELSE -1>>
    ELSE <<>>

DenseMask ==
    IF options_.extract_selection_mask_feature
    THEN <<IF token.is_in_span THEN 1
           ELSE IF options_.unicode_aware_features THEN -1 ELSE 0>>
    ELSE <<>>

PatternFound(pattern, value) ==
    /\ pattern \notin UncompilablePatterns
    /\ \E i \in 1..Len(value) :
          /\ i + Len(pattern) - 1 <= Len(value)
          /\ \A j \in 1..Len(pattern) : value[i + j - 1] = pattern[j]

DenseRegex(value) ==
    [i \in 1..Len(options_.regexp_features) |->
        IF PatternFound(options_.regexp_features[i], value) THEN 1 ELSE -1]

DenseLength ==
    (IF options_.extract_case_feature THEN 1 ELSE 0)
    + (IF options_.extract_selection_mask_feature THEN 1 ELSE 0)
    + Len(options_.regexp_features)

FirstCodepointIsUpper ==
    token.value # <<>> /\ u_isupper(CodePointAt(token.value, 0))

FirstByteIsAsciiUpper ==
    token.value # <<>> /\ token.value[1] >= 65 /\ token.value[1] <= 90

\* C11 as stated: starting from empty buffers, Extract(token) appends case,
\* selection mask, then one value per configured pattern in configuration
\* order; case is +1 iff the token is non-empty and its first character (its
\* first codepoint) is uppercase, in either mode; the mask is +1 in span, else
\* -1 in Unicode-aware and 0 in ASCII mode; pattern i gives +1 iff it compiled
\* and is found in the token, else -1; the length is (case enabled) + (mask
\* enabled) + number of patterns.
C11_DenseOrderCaseOfFirstCodepoint ==
    FirstExtractDone =>
        /\ dense_features =
              DenseCase(FirstCodepointIsUpper) \o DenseMask
              \o DenseRegex(token.value)
        /\ Len(dense_features) = DenseLength

\* C11 (amended): as above, except that in ASCII mode the case value is +1
\* iff the token is non-empty and its first byte is an ASCII capital letter,
\* so that a token starting with a non-ASCII capital gets -1 there; in
\* Unicode-aware mode it is +1 iff the first codepoint is uppercase.
C11_DenseOrderCaseByMode ==
    FirstExtractDone =>
        /\ dense_features =
              DenseCase(IF options_.unicode_aware_features
                        THEN FirstCodepointIsUpper
                        ELSE FirstByteIsAsciiUpper)
              \o DenseMask \o DenseRegex(token.value)
        /\ Len(dense_features) = DenseLength

\* ASCII mode, everything enabled, token "7" outside the span, patterns "("
\* (does not compile) and "7": case -1, mask 0, then -1 and +1.
C11_Witness ==
    /\ FirstExtractDone
    /\ ~options_.unicode_aware_features
    /\ options_.extract_case_feature
    /\ options_.extract_selection_mask_feature
    /\ Len(options_.regexp_features) = 2
    /\ ~regex_patterns_[1].compiled
    /\ ~token.is_in_span
    /\ dense_features = <<-1, 0, -1, 1>>

\* A token value with every decimal-digit codepoint replaced by '0' and every
\* other codepoint kept in place.
DigitCodepointsToZero(value) ==
    LET units == CodepointUnits(value)
    IN  Flatten([i \in 1..Len(units) |->
                    IF u_isdigit(CodePointAt(units[i], 0)) THEN <<kZero>>
                    ELSE units[i]])

\* A token value with every byte '0'..'9' replaced by '0' and every other
\* byte kept in place.
DigitBytesToZero(value) ==
    [i \in 1..Len(value) |->
        IF value[i] >= kZero /\ value[i] <= kZero + 9 THEN kZero
        ELSE value[i]]

\* The sparse ids of the token whose value is word, extracted without
\* remapping.
IdsOfWord(word) ==
    ExtractCharactergramFeatures([options_ EXCEPT !.remap_digits = FALSE],
                                 [token EXCEPT !.value = word])

\* The dense values of the original token value.
DenseOfOriginal ==
    DenseCase(IF options_.unicode_aware_features
              THEN FirstCodepointIsUpper
              ELSE FirstByteIsAsciiUpper)
    \o DenseMask \o DenseRegex(token.value)

\* C12 as stated: with remap_digits enabled, in the ASCII and in the
\* Unicode-aware mode alike, the n-grams are those of the token value with
\* every decimal-digit codepoint (ASCII or not) replaced by '0' and every
\* other codepoint kept in place, and the case, selection-mask and regex
\* values are those of the original token value.
C12_EveryDigitCodepointRemapped ==
    (FirstExtractDone /\ options_.remap_digits) =>
        /\ sparse_features = IdsOfWord(DigitCodepointsToZero(token.value))
        /\ dense_features = DenseOfOriginal

\* C12 (amended): with remap_digits enabled, the Unicode-aware mode replaces
\* every decimal-digit codepoint by '0'; the ASCII mode replaces the bytes
\* '0'..'9' only and keeps every other byte, so a non-ASCII decimal digit is
\* not remapped there; in both modes the dense values are those of the
\* original token value.
C12_DigitsRemappedByMode ==
    (FirstExtractDone /\ options_.remap_digits) =>
        /\ sparse_features =
              IdsOfWord(IF options_.unicode_aware_features
                        THEN DigitCodepointsToZero(token.value)
                        ELSE DigitBytesToZero(token.value))
        /\ dense_features = DenseOfOriginal

\* Unicode-aware mode with remapping, token "7" and the patterns "(" and "7":
\* the ids are those of "^0" and "0$", and the pattern "7" is found.
C12_Witness ==
    /\ FirstExtractDone
    /\ options_.remap_digits
    /\ options_.unicode_aware_features
    /\ token.value = <<55>>
    /\ ~token.is_padding
    /\ sparse_features = HashAll(options_, << <<kCaret, kZero>>, <<kZero, kDollar>> >>)
    /\ Len(dense_features) >= 2
    /\ dense_features[Len(dense_features)] = 1

(***************************************************************************)
(*                    Properties of the hashed ids                         *)
(***************************************************************************)
\* ids are the fingerprints of the strings grams, reduced modulo num_buckets,
\* one id per string and in the same order.
IdsAreReducedFingerprints(ids, grams) ==
    /\ Len(ids) = Len(grams)
    /\ \A i \in DOMAIN ids :
          /\ ids[i] = Fingerprint64(grams[i]) % options_.num_buckets
          /\ ids[i] >= 0
          /\ ids[i] < options_.num_buckets

\* C13: with num_buckets > 0, every id either path returns is the fingerprint
\* of its n-gram string modulo num_buckets and lies in [0, num_buckets); a
\* padding token gives exactly one id, that of "<PAD>", whatever its value and
\* the configured orders.
C13_IdsAreFingerprintsModBuckets ==
    /\ ascii_result.ran =>
          IdsAreReducedFingerprints(
              ascii_result.ids,
              IF token.is_padding THEN <<kPadToken>>
              ELSE AllChargramsAscii(ascii_result.feature_word,
                                     options_.chargram_orders))
    /\ unicode_result.ran =>
          IdsAreReducedFingerprints(
              unicode_result.ids,
              IF token.is_padding THEN <<kPadToken>>
              ELSE AllChargramsUnicode(unicode_result.feature_word,
                                       options_.chargram_orders))

\* Both paths have run on a padding token with a value and three configured
\* orders, with 7 buckets: one id each, that of "<PAD>".
C13_Witness ==
    /\ ascii_result.ran /\ unicode_result.ran
    /\ token.is_padding
    /\ Len(token.value) = MaxTokenLen
    /\ Len(options_.chargram_orders) = 3
    /\ options_.num_buckets = 7
    /\ ascii_result.ids = <<Fingerprint64(kPadToken) % 7>>
    /\ unicode_result.ids = ascii_result.ids

(***************************************************************************)
(*                  Properties of the batch Extract                        *)
(***************************************************************************)
\* What one batch Extract on the tokens leaves in fresh, empty vectors.
FreshBatchResult ==
    ExtractBatch(options_, regex_patterns_, tokens, FALSE, FALSE, <<>>, <<>>)

\* C14: after the batch Extract has run twice in a row on the same tokens and
\* the same two output vectors, both vectors hold what one call on fresh empty
\* vectors produces: the per-token sparse ids and the per-token dense values
\* are replaced, not accumulated.
C14_SecondBatchCallLeavesFreshResult ==
    calls.batch = 2 =>
        /\ batch_sparse_features = FreshBatchResult.sparse_features
        /\ batch_dense_features = FreshBatchResult.dense_features

(***************************************************************************)
(*              LangIdImpl: the network exists when it is used             *)
(***************************************************************************)
NetworkExists == network_params_.created /\ network_.created

\* C15: once constructed, is_valid() implies that network_params_ and
\* network_ are both non-null, and the tokenizer and the network have been
\* reached only with the network in place; where either pointer is null,
\* is_valid() is false, the network was never reached and the last query got
\* the empty score list.
C15_ValidImpliesNetworkExists ==
    Constructed =>
        /\ is_valid => NetworkExists
        /\ network_used => NetworkExists
        /\ ~NetworkExists =>
              /\ ~is_valid
              /\ ~network_used
              /\ last.op \in {"FindLanguage", "FindLanguages"} =>
                    last.scores = <<>>

\* A valid classifier whose FindLanguages has run the network and got one
\* score per output of its final layer.
C15_Witness ==
    /\ Constructed
    /\ is_valid
    /\ failed_step = "none"
    /\ NetworkExists
    /\ network_used
    /\ last.op = "FindLanguages"
    /\ Len(last.scores) = network_.out_dim
    /\ last.scores # <<>>

====
